---- MODULE Spec2Model ----
(***************************************************************************)
(* Model of the coding-practice Telegram bot (src/Documentation.py):       *)
(* the module-level catalog load and deduplication pass, and the handlers  *)
(* start, get_task and solve.  A handler runs without suspension up to its *)
(* single reply, so every handler call is one action.                      *)
(***************************************************************************)
EXTENDS Integers, Sequences, FiniteSets, TLC

(***************************************************************************)
(* Bounds                                                                  *)
(***************************************************************************)
NumUsers == 2

Users == 1..NumUsers

VARIABLES
    tasks,          \* the list loaded from tasks.json (module global "tasks")
    unique_tasks,   \* the list kept by the deduplication pass
    tasks_json,     \* the content of tasks.json after the module has loaded
    user_data,      \* per user: <<>> or <<k>>, context.user_data["current_task"] is tasks[k]
    local_vars,     \* the namespace filled by the most recent exec
    last,           \* the most recent handler call: who, what, replies, trace
    earlier         \* <<>> or one evaluation kept from the past (history)

vars == <<tasks, unique_tasks, tasks_json, user_data, local_vars, last, earlier>>

(***************************************************************************)
(* Python values.  A value is a record [t, v]: t is the Python type and v  *)
(* the contents as a sequence of integers (an int n is <<n>>).  "obj" is   *)
(* an instance of a class of the submission that overrides __ne__ to       *)
(* return False, "appender" one whose __ne__ appends 99 to a list operand  *)
(* of fewer than 3 elements and returns True; "none" stands for a field    *)
(* that carries no value.                                                  *)
(***************************************************************************)
PyInt(n) == [t |-> "int", v |-> <<n>>]
PyTuple(s) == [t |-> "tuple", v |-> s]
PyList(s) == [t |-> "list", v |-> s]
PyObj == [t |-> "obj", v |-> <<>>]
PyAppender == [t |-> "appender", v |-> <<>>]
NoVal == [t |-> "none", v |-> <<>>]

\* What a Python expression or call does: returns a value, raises an
\* Exception, or raises a BaseException that is no Exception (SystemExit).
Returned(val) == [kind |-> "return", val |-> val, err |-> ""]
Raised(err) == [kind |-> "Exception", val |-> NoVal, err |-> err]
Exited == [kind |-> "BaseException", val |-> NoVal, err |-> "SystemExit"]

\* eval(test_case["input"]) on the input texts of the catalog.
PyEval(text) ==
    CASE text = "(1, 2)" -> Returned(PyTuple(<<1, 2>>))
      [] text = "(3, 5)" -> Returned(PyTuple(<<3, 5>>))
      [] text = "(1, 0)" -> Returned(PyTuple(<<1, 0>>))
      [] text = "[1, 2]" -> Returned(PyList(<<1, 2>>))
      [] text = "5" -> Returned(PyInt(5))
      [] text = "()" -> Returned(PyTuple(<<>>))
      [] OTHER -> Raised("SyntaxError")

\* isinstance(input_data, tuple)
IsTuple(val) == val.t = "tuple"

\* Mutant: the input is never unpacked.
CallArgsNoUnpack(val) == <<val>>

\* The positional arguments of the call: user_function(*input_data) for a
\* tuple, user_function(input_data) otherwise.
CallArgs(val) ==
    IF IsTuple(val)
    THEN [k \in 1..Len(val.v) |-> PyInt(val.v[k])]
    ELSE <<val>>

\* result != expected_output, as Python decides it: the left operand's
\* __ne__ is asked first; values of different built-in types are unequal.
PyNe(result, expected) ==
    IF result.t = "obj" THEN FALSE
    ELSE IF result.t = "appender" THEN TRUE
    ELSE IF result.t # expected.t THEN TRUE
    ELSE result.v # expected.v

\* The object expected_output refers to once result != expected_output has
\* run: the comparison hands the catalog's own object to the result's
\* __ne__, which can change a list in place.
ExpectedAfterNe(result, expected) ==
    IF result.t = "appender" /\ expected.t = "list" /\ Len(expected.v) < 3
    THEN PyList(Append(expected.v, 99))
    ELSE expected

(***************************************************************************)
(* Submitted code.  src is the Python text; load is what exec of it does;  *)
(* binds the names it binds at top level; arity and body describe the      *)
(* function it defines.                                                    *)
(***************************************************************************)
Code(src, load, err, binds, arity, body) ==
    [src |-> src, load |-> load, err |-> err, binds |-> binds,
     arity |-> arity, body |-> body]

CodeAdd == Code("def add(a, b): return a + b", "ok", "", {"add"}, 2, "a+b")
CodeSub == Code("def add(a, b): return a - b", "ok", "", {"add"}, 2, "a-b")
CodeSyntax == Code("def add(a, b): return a +", "Exception", "SyntaxError", {}, 0, "")
CodeAddition == Code("def addition(a, b): return a + b", "ok", "", {"addition"}, 2, "a+b")
CodeUnary == Code("def add(a): return a", "ok", "", {"add"}, 1, "a")
CodeExitLoad == Code("raise SystemExit", "BaseException", "SystemExit", {}, 0, "")
CodeExitCall == Code("def add(a, b): raise SystemExit", "ok", "", {"add"}, 2, "exit")
CodeRaise == Code("def add(a, b): raise ValueError('boom')", "ok", "", {"add"}, 2, "raise")
CodeAlwaysEq ==
    Code("def add(a, b):\n    class A:\n        def __ne__(self, o): return False\n    return A()",
         "ok", "", {"add"}, 2, "obj")
CodeRecursive ==
    Code("def add(a, b):\n    return a if b == 0 else add(a + 1, b - 1)",
         "ok", "", {"add"}, 2, "rec")
CodeDefThenFail ==
    Code("def add(a, b): return a + b\n1/0", "Exception", "ZeroDivisionError", {"add"}, 2, "a+b")

\* The returned object's __ne__ appends to the value it is compared with.
CodeAppend ==
    Code("def add(a):\n    class A:\n        def __ne__(self, o):\n            if isinstance(o, list) and len(o) < 3: o.append(99)\n            return True\n    return A()",
         "ok", "", {"add"}, 1, "appender")

\* add calls another top-level function of the same submission.
CodeHelper ==
    Code("def helper(a, b): return a + b\ndef add(a, b): return helper(a, b)",
         "ok", "", {"helper", "add"}, 2, "helper")

Codes == {CodeAdd, CodeSub, CodeSyntax, CodeAddition, CodeUnary,
          CodeExitLoad, CodeExitCall, CodeRaise, CodeAlwaysEq, CodeRecursive,
          CodeDefThenFail, CodeHelper, CodeAppend}

\* Mutant: the submission's top-level names are also its globals.
ExecGlobalsOwnNames == {"add", "helper"}

\* The globals mapping handed to exec: exec(user_code, {}, local_vars).  It
\* is a new empty dict: it holds none of the module's globals and none of
\* the submission's top-level names.
ExecGlobals == {}

\* Mutant: one namespace kept across calls.
NewLocalsKept == local_vars

\* local_vars = {}
NewLocals == {}

\* exec(user_code, globals, locals): top-level bindings go to locals only.
Exec(code, locals) ==
    [kind |-> IF code.load = "ok" THEN "return" ELSE code.load,
     err |-> code.err,
     locals |-> locals \cup code.binds]

\* user_function(*args) for the function the code defines; the function's
\* global names are looked up in globals (the mapping given to exec).
Call(code, args, globals) ==
    IF Len(args) # code.arity THEN Raised("TypeError")
    ELSE CASE code.body = "a+b" -> Returned(PyInt(args[1].v[1] + args[2].v[1]))
           [] code.body = "a-b" -> Returned(PyInt(args[1].v[1] - args[2].v[1]))
           [] code.body = "a" -> Returned(args[1])
           [] code.body = "exit" -> Exited
           [] code.body = "raise" -> Raised("boom")
           [] code.body = "obj" -> Returned(PyObj)
           [] code.body = "appender" -> Returned(PyAppender)
           [] code.body = "rec" ->
                IF args[2].v[1] = 0 THEN Returned(args[1])
                ELSE IF "add" \in globals
                THEN Returned(PyInt(args[1].v[1] + args[2].v[1]))
                ELSE Raised("NameError")
           [] code.body = "helper" ->
                IF "helper" \in globals
                THEN Returned(PyInt(args[1].v[1] + args[2].v[1]))
                ELSE Raised("NameError")
           [] OTHER -> Raised("TypeError")

(***************************************************************************)
(* The task catalog (tasks.json).                                          *)
(***************************************************************************)
TestCase(input, output) == [input |-> input, output |-> output]

Task(level, task, function_name, test_cases) ==
    [level |-> level, task |-> task, function_name |-> function_name,
     test_cases |-> test_cases]

\* Levels are the values of level_map, transliterated: "legkiy" is the
\* level of /easy, "sredniy" of /medium, "slozhnyy" of /hard.
TaskAdd ==
    Task("legkiy", "add two numbers", "add",
         <<TestCase("(1, 2)", PyInt(3)), TestCase("(3, 5)", PyInt(8))>>)
\* Same (level, task, function_name) as TaskAdd, other test cases.
TaskOrder ==
    Task("legkiy", "add two numbers", "add",
         <<TestCase("(1, 2)", PyInt(3)), TestCase("(3, 5)", PyInt(9)),
           TestCase("(1, 2)", PyInt(4))>>)
TaskEmpty == Task("sredniy", "write a function", "add", <<>>)
TaskMixed ==
    Task("sredniy", "return the argument", "add",
         <<TestCase("[1, 2]", PyList(<<1, 2>>)), TestCase("5", PyInt(5)),
           TestCase("()", PyInt(0))>>)
TaskNoName == Task("sredniy", "no name", "", <<>>)
\* The first case has b = 0, the second has not; the input text of the
\* third is no Python expression.
TaskBase ==
    Task("legkiy", "add by counting", "add",
         <<TestCase("(1, 0)", PyInt(1)), TestCase("(1, 2)", PyInt(3)),
           TestCase("(1, 2", PyInt(3))>>)

\* The content of tasks.json when the module is loaded.
TasksJson == <<TaskAdd, TaskOrder, TaskEmpty, TaskMixed, TaskNoName, TaskBase>>

\* task_tuple = (task["level"], task["task"], task["function_name"])
TaskTuple(task) == <<task.level, task.task, task.function_name>>

\* Mutant: the pass never records a triple as seen.
RECURSIVE DedupFromNoMark(_, _, _, _)
DedupFromNoMark(ts, i, unique, seen) ==
    IF i > Len(ts) THEN unique
    ELSE IF TaskTuple(ts[i]) \notin seen
         THEN DedupFromNoMark(ts, i + 1, Append(unique, ts[i]), seen)
         ELSE DedupFromNoMark(ts, i + 1, unique, seen)

\* The loop "for task in tasks" of the deduplication pass, from position i.
RECURSIVE DedupFrom(_, _, _, _)
DedupFrom(ts, i, unique, seen) ==
    IF i > Len(ts) THEN unique
    ELSE IF TaskTuple(ts[i]) \notin seen
         THEN DedupFrom(ts, i + 1, Append(unique, ts[i]), seen \cup {TaskTuple(ts[i])})
         ELSE DedupFrom(ts, i + 1, unique, seen)

Dedup(ts) == DedupFrom(ts, 1, <<>>, {})

(***************************************************************************)
(* Replies.  One record shape for every message of the bot; kind names the *)
(* template, the other fields are the values formatted into it.            *)
(***************************************************************************)
Msg(kind, name, index, input, expected, actual, msg) ==
    [kind |-> kind, name |-> name, index |-> index, input |-> input,
     expected |-> expected, actual |-> actual, msg |-> msg]

Greeting == Msg("Greeting", "", 0, "", NoVal, NoVal, "")
InvalidCommand == Msg("InvalidCommand", "", 0, "", NoVal, NoVal, "")
NoTasks(level) == Msg("NoTasks", "", 0, "", NoVal, NoVal, level)
TaskSent(task, level) ==
    Msg("TaskSent", task.function_name, 0, task.task, NoVal, NoVal, level)
SelectTaskFirst == Msg("SelectTaskFirst", "", 0, "", NoVal, NoVal, "")
NoFunctionName == Msg("NoFunctionName", "", 0, "", NoVal, NoVal, "")
FunctionMissing(name) == Msg("FunctionMissing", name, 0, "", NoVal, NoVal, "")
TestFailed(index, input, expected, actual) ==
    Msg("TestFailed", "", index, input, expected, actual, "")
AllPassed == Msg("AllPassed", "", 0, "", NoVal, NoVal, "")
ExecutionError(msg) == Msg("ExecutionError", "", 0, "", NoVal, NoVal, msg)

\* What one handler call did: the replies it sent, the exception that left
\* it ("" when it returned), the test cases whose input it gave to eval, the
\* calls of the user function it made, and the namespace exec filled.
Outcome(replies, raised, parsed, invoked, locals) ==
    [replies |-> replies, raised |-> raised, parsed |-> parsed,
     invoked |-> invoked, locals |-> locals]

(***************************************************************************)
(* solve                                                                   *)
(***************************************************************************)
\* The submission a message text is, as Python reads it.
Program(text) == CHOOSE c \in Codes : c.src = text

\* Mutant: the loop index is shown as it is.
TestNumberZeroBased(i) == i

\* The test number the failure message shows for loop index i: {i + 1}.
TestNumber(i) == i + 1

\* The body of the loop for index i (0-based): eval of the input, the call,
\* the comparison.  stop tells whether the handler leaves the loop here,
\* with these replies and this exception; invoked holds the call made.
Step(stop, replies, raised, invoked) ==
    [stop |-> stop, replies |-> replies, raised |-> raised, invoked |-> invoked]

CaseStep(task, code, i) ==
    LET test_case == task.test_cases[i + 1]
        input_data == PyEval(test_case.input)
        expected_output == test_case.output
    IN  IF input_data.kind # "return"
        THEN Step(TRUE, <<ExecutionError(input_data.err)>>, "", <<>>)
        ELSE LET args == CallArgs(input_data.val)
                 result == Call(code, args, ExecGlobals)
                 call == <<[case |-> i + 1, args |-> args]>>
             IN  CASE result.kind = "Exception" ->
                        Step(TRUE, <<ExecutionError(result.err)>>, "", call)
                   [] result.kind = "BaseException" ->
                        Step(TRUE, <<>>, result.err, call)
                   [] OTHER ->
                        IF PyNe(result.val, expected_output)
                        THEN Step(TRUE, <<TestFailed(TestNumber(i), test_case.input,
                                                     ExpectedAfterNe(result.val,
                                                                     expected_output),
                                                     result.val)>>,
                                  "", call)
                        ELSE Step(FALSE, <<>>, "", call)

\* Mutant: the loop runs every case and reports the last failure.
RECURSIVE RunTestsAll(_, _, _, _, _, _)
RunTestsAll(task, code, i, parsed, invoked, locals) ==
    IF i >= Len(task.test_cases)
    THEN LET failing == {j \in 0..(Len(task.test_cases) - 1) : CaseStep(task, code, j).stop}
         IN  IF failing = {}
             THEN Outcome(<<AllPassed>>, "", parsed, invoked, locals)
             ELSE LET j == CHOOSE x \in failing : \A y \in failing : y <= x
                  IN  Outcome(CaseStep(task, code, j).replies, CaseStep(task, code, j).raised,
                              parsed, invoked, locals)
    ELSE RunTestsAll(task, code, i + 1, Append(parsed, i + 1),
                     invoked \o CaseStep(task, code, i).invoked, locals)

\* Mutant: the loop body runs before the list is tested for its end.
RECURSIVE RunTestsDoWhile(_, _, _, _, _, _)
RunTestsDoWhile(task, code, i, parsed, invoked, locals) ==
    IF i >= Len(task.test_cases)
    THEN IF i = 0
         THEN Outcome(<<ExecutionError("IndexError")>>, "", parsed, invoked, locals)
         ELSE Outcome(<<AllPassed>>, "", parsed, invoked, locals)
    ELSE LET step == CaseStep(task, code, i)
         IN  IF step.stop
             THEN Outcome(step.replies, step.raised, Append(parsed, i + 1),
                          invoked \o step.invoked, locals)
             ELSE RunTestsDoWhile(task, code, i + 1, Append(parsed, i + 1),
                                  invoked \o step.invoked, locals)

\* The loop "for i, test_case in enumerate(task["test_cases"])" from index
\* i (0-based), with the trace so far.
RECURSIVE RunTests(_, _, _, _, _, _)
RunTests(task, code, i, parsed, invoked, locals) ==
    IF i >= Len(task.test_cases)
    THEN Outcome(<<AllPassed>>, "", parsed, invoked, locals)
    ELSE LET step == CaseStep(task, code, i)
         IN  IF step.stop
             THEN Outcome(step.replies, step.raised, Append(parsed, i + 1),
                          invoked \o step.invoked, locals)
             ELSE RunTests(task, code, i + 1, Append(parsed, i + 1),
                           invoked \o step.invoked, locals)

\* Mutant: the function is fetched without the membership test, so a
\* missing name is a KeyError inside the try block.
EvaluateNoLookup(task, user_code) ==
    LET code == Program(user_code)
        loaded == Exec(code, NewLocals)
    IN  CASE loaded.kind = "Exception" ->
               Outcome(<<ExecutionError(loaded.err)>>, "", <<>>, <<>>, loaded.locals)
          [] loaded.kind = "BaseException" ->
               Outcome(<<>>, loaded.err, <<>>, <<>>, loaded.locals)
          [] OTHER ->
               IF task.function_name \notin loaded.locals
               THEN Outcome(<<ExecutionError("KeyError")>>, "", <<>>, <<>>, loaded.locals)
               ELSE RunTests(task, code, 0, <<>>, <<>>, loaded.locals)

\* The try block of solve for a task that has a function name.
Evaluate(task, user_code) ==
    LET code == Program(user_code)
        loaded == Exec(code, NewLocals)
    IN  CASE loaded.kind = "Exception" ->
               Outcome(<<ExecutionError(loaded.err)>>, "", <<>>, <<>>, loaded.locals)
          [] loaded.kind = "BaseException" ->
               Outcome(<<>>, loaded.err, <<>>, <<>>, loaded.locals)
          [] OTHER ->
               IF task.function_name \notin loaded.locals
               THEN Outcome(<<FunctionMissing(task.function_name)>>, "", <<>>, <<>>,
                            loaded.locals)
               ELSE RunTests(task, code, 0, <<>>, <<>>, loaded.locals)

\* The task a session refers to: user_data holds a reference to a dict of
\* the list tasks (its position k), not a copy.
Deref(ud, ts, u) == IF ud[u] = <<>> THEN <<>> ELSE <<ts[ud[u][1]]>>

\* context.user_data.get("current_task") in the session of user u.
CurrentTask(u) == Deref(user_data, tasks, u)

\* The task dict after the test loop made the calls in invoked: every case
\* whose call returned had its output compared with the result.
TaskAfterRun(task, code, invoked) ==
    [task EXCEPT !.test_cases =
        [i \in 1..Len(task.test_cases) |->
            LET calls == {j \in 1..Len(invoked) : invoked[j].case = i}
                case == task.test_cases[i]
            IN  IF calls = {} THEN case
                ELSE LET result == Call(code, invoked[CHOOSE j \in calls : TRUE].args,
                                        ExecGlobals)
                     IN  IF result.kind # "return" THEN case
                         ELSE [case EXCEPT !.output =
                                  ExpectedAfterNe(result.val, case.output)]]]

\* The module global tasks after solve for the session whose current task
\* is ref (<<>> or <<k>>) and whose test loop made the calls in invoked:
\* the comparisons of the test loop act on the dict tasks[k] itself.
TasksAfterSolve(ref, user_code, invoked) ==
    IF ref = <<>> \/ tasks[ref[1]].function_name = "" THEN tasks
    ELSE IF invoked = <<>> THEN tasks
    ELSE [tasks EXCEPT ![ref[1]] =
             TaskAfterRun(tasks[ref[1]], Program(user_code), invoked)]

\* unique_tasks after solve: the pass appended the dicts of tasks themselves,
\* one per triple and always the first of tasks that carries it, so
\* unique_tasks shows a change in place exactly when the changed dict is that
\* first one; a later dict of the same triple is in tasks only (tasks.json,
\* written before, is not changed either way).
UniqueTasksAfterSolve(ref, after) ==
    IF ref = <<>> THEN unique_tasks
    ELSE IF \E j \in 1..(ref[1] - 1) : TaskTuple(tasks[j]) = TaskTuple(tasks[ref[1]])
         THEN unique_tasks
         ELSE [i \in 1..Len(unique_tasks) |->
                  IF TaskTuple(unique_tasks[i]) = TaskTuple(tasks[ref[1]])
                  THEN after[ref[1]] ELSE unique_tasks[i]]

\* Mutant: the submission is executed before the current task is looked at.
SolveOutcomeExecFirst(current, user_code) ==
    IF current = <<>>
    THEN LET loaded == Exec(Program(user_code), NewLocals)
         IN  IF loaded.kind = "return"
             THEN Outcome(<<SelectTaskFirst>>, "", <<>>, <<>>, loaded.locals)
             ELSE Evaluate(TaskEmpty, user_code)
    ELSE IF current[1].function_name = ""
    THEN Outcome(<<NoFunctionName>>, "", <<>>, <<>>, local_vars)
    ELSE Evaluate(current[1], user_code)

\* The body of solve for the session's current task.
SolveOutcome(current, user_code) ==
    IF current = <<>>
    THEN Outcome(<<SelectTaskFirst>>, "", <<>>, <<>>, local_vars)
    ELSE IF current[1].function_name = ""
    THEN Outcome(<<NoFunctionName>>, "", <<>>, <<>>, local_vars)
    ELSE Evaluate(current[1], user_code)

(***************************************************************************)
(* get_task                                                                *)
(***************************************************************************)
CommandTexts == {"/easy", "/medium", "/hard", "/invalid"}

\* update.message.text[1:]
Command(text) ==
    CASE text = "/easy" -> "easy"
      [] text = "/medium" -> "medium"
      [] text = "/hard" -> "hard"
      [] text = "/invalid" -> "invalid"
      [] OTHER -> ""

\* Mutant: an unknown command falls back to the easy level.
LevelMapDefault(command) ==
    CASE command = "easy" -> "legkiy"
      [] command = "medium" -> "sredniy"
      [] command = "hard" -> "slozhnyy"
      [] OTHER -> "legkiy"

\* level_map.get(command); "" stands for None.
LevelMap(command) ==
    CASE command = "easy" -> "legkiy"
      [] command = "medium" -> "sredniy"
      [] command = "hard" -> "slozhnyy"
      [] OTHER -> ""

\* Mutant: the level filter is dropped.
FilteredTasksAll(selected_level) == tasks

\* [task for task in tasks if task["level"] == selected_level]
FilteredTasks(selected_level) ==
    SelectSeq(tasks, LAMBDA task : task.level = selected_level)

\* context.user_data["current_task"] = task, in the session of user u; the
\* session holds tasks[k] itself.
SetCurrentTask(ud, u, k) == [ud EXCEPT ![u] = <<k>>]

\* The record of a handler call.
Handled(u, op, text, current, out) ==
    [user |-> u, op |-> op, text |-> text, task |-> current,
     replies |-> out.replies, raised |-> out.raised,
     parsed |-> out.parsed, invoked |-> out.invoked]

NoOutcome == Outcome(<<>>, "", <<>>, <<>>, {})

(***************************************************************************)
(* The state after the module has loaded, and the handler calls.           *)
(***************************************************************************)
Init ==
    /\ tasks = TasksJson
    /\ unique_tasks = Dedup(tasks)
    /\ tasks_json = unique_tasks
    /\ user_data = [u \in Users |-> <<>>]
    /\ local_vars = {}
    /\ last = Handled(1, "none", "", <<>>, NoOutcome)
    /\ earlier = <<>>

start(u) ==
    /\ last' = Handled(u, "start", "/start", CurrentTask(u),
                       Outcome(<<Greeting>>, "", <<>>, <<>>, {}))
    /\ UNCHANGED <<tasks, unique_tasks, tasks_json, user_data, local_vars, earlier>>

get_task(u, text) ==
    LET command == Command(text)
        selected_level == LevelMap(command)
        filtered_tasks == FilteredTasks(selected_level)
    IN  /\ IF selected_level = ""
           THEN /\ last' = Handled(u, "get_task", text, CurrentTask(u),
                                   Outcome(<<InvalidCommand>>, "", <<>>, <<>>, {}))
                /\ UNCHANGED user_data
           ELSE IF filtered_tasks = <<>>
           THEN /\ last' = Handled(u, "get_task", text, CurrentTask(u),
                                   Outcome(<<NoTasks(selected_level)>>, "", <<>>, <<>>, {}))
                /\ UNCHANGED user_data
           ELSE \E k \in 1..Len(tasks) :
                    LET task == tasks[k]
                    IN  /\ \E j \in 1..Len(filtered_tasks) : filtered_tasks[j] = task
                        /\ user_data' = SetCurrentTask(user_data, u, k)
                        /\ last' = Handled(u, "get_task", text, <<task>>,
                                           Outcome(<<TaskSent(task, selected_level)>>,
                                                   "", <<>>, <<>>, {}))
        /\ UNCHANGED <<tasks, unique_tasks, tasks_json, local_vars, earlier>>

\* Mutant: a solved task is cleared from the session.
solveClearing(u, user_code) ==
    LET task == CurrentTask(u)
        out == SolveOutcome(task, user_code)
    IN  /\ tasks' = TasksAfterSolve(user_data[u], user_code, out.invoked)
        /\ last' = Handled(u, "solve", user_code, Deref(user_data, tasks', u), out)
        /\ local_vars' = out.locals
        /\ unique_tasks' = UniqueTasksAfterSolve(user_data[u], tasks')
        /\ user_data' = IF out.replies = <<AllPassed>>
                        THEN [user_data EXCEPT ![u] = <<>>]
                        ELSE user_data
        /\ UNCHANGED <<tasks_json, earlier>>

solve(u, user_code) ==
    LET task == CurrentTask(u)
        out == SolveOutcome(task, user_code)
    IN  /\ tasks' = TasksAfterSolve(user_data[u], user_code, out.invoked)
        /\ last' = Handled(u, "solve", user_code, Deref(user_data, tasks', u), out)
        /\ local_vars' = out.locals
        /\ unique_tasks' = UniqueTasksAfterSolve(user_data[u], tasks')
        /\ UNCHANGED <<tasks_json, user_data, earlier>>

Next ==
    \/ \E u \in Users : start(u)
    \/ \E u \in Users : \E text \in CommandTexts : get_task(u, text)
    \/ \E u \in Users : \E c \in Codes : solve(u, c.src)

Spec == Init /\ [][Next]_vars

(***************************************************************************)
(* The evaluation engine alone: evaluate(task, submitted_code) of the      *)
(* spec's section 6 is solve called with the task already selected.  This  *)
(* specification applies it to every task of the catalog and every         *)
(* submission, in any order, and keeps one evaluation that ended before    *)
(* the most recent one began, to compare later ones with.                  *)
(***************************************************************************)
Evaluation(task, text, out) ==
    [task |-> task, text |-> text, replies |-> out.replies, raised |-> out.raised]

evaluate(k, submitted_code) ==
    LET out == SolveOutcome(<<tasks[k]>>, submitted_code)
    IN  /\ tasks' = TasksAfterSolve(<<k>>, submitted_code, out.invoked)
        /\ last' = Handled(1, "solve", submitted_code, <<tasks'[k]>>, out)
        /\ local_vars' = out.locals
        /\ earlier' \in IF earlier = <<>> /\ last.op = "solve"
                         THEN {earlier, <<Evaluation(last.task[1], last.text, last)>>}
                         ELSE {earlier}
        /\ unique_tasks' = UniqueTasksAfterSolve(<<k>>, tasks')
        /\ UNCHANGED <<tasks_json, user_data>>

NextEvaluate == \E k \in 1..Len(tasks) : \E c \in Codes : evaluate(k, c.src)

SpecEvaluate == Init /\ [][NextEvaluate]_vars

(***************************************************************************)
(* The module loaded from any tasks.json of at most MaxTasks different     *)
(* tasks (two may share their level, task and function_name), and          *)
(* the handlers that read the catalog.                                     *)
(***************************************************************************)
MaxTasks == 3

\* A task of the third level; tasks.json as modelled by TasksJson has none.
TaskHard == Task("slozhnyy", "add big numbers", "add", <<TestCase("(3, 5)", PyInt(8))>>)

TaskPool == {TaskAdd, TaskOrder, TaskBase, TaskEmpty, TaskHard}

\* The lists of at most MaxTasks different task records.
CatalogFiles ==
    {ts \in UNION {[1..n -> TaskPool] : n \in 0..MaxTasks} :
        \A i, j \in 1..Len(ts) : ts[i] = ts[j] => i = j}

InitCatalog ==
    /\ tasks \in CatalogFiles
    /\ unique_tasks = Dedup(tasks)
    /\ tasks_json = unique_tasks
    /\ user_data = [u \in Users |-> <<>>]
    /\ local_vars = {}
    /\ last = Handled(1, "none", "", <<>>, NoOutcome)
    /\ earlier = <<>>

NextCatalog ==
    \/ \E u \in Users : start(u)
    \/ \E u \in Users : \E text \in CommandTexts : get_task(u, text)

SpecCatalog == InitCatalog /\ [][NextCatalog]_vars

(***************************************************************************)
(* Properties.  They speak about the most recent handler call (last).      *)
(***************************************************************************)
\* The last call was solve with a task selected that has a function name
\* (a Task of the spec's data model: function_name is a valid identifier).
Evaluated ==
    /\ last.op = "solve"
    /\ last.task # <<>>
    /\ last.task[1].function_name # ""

LastTask == last.task[1]
LastCode == Program(last.text)
LastCases == LastTask.test_cases

\* The submission loads without raising / binds the task's function name.
Loads(code) == code.load = "ok"
Defines(code, task) == Loads(code) /\ task.function_name \in code.binds

\* Test case k (1-based) taken alone: "parse" when eval of its input
\* raises, "raise" or "exit" when the call raises, "mismatch" when the
\* comparison result != expected is true, "pass" otherwise.
CaseArgs(task, k) ==
    LET p == PyEval(task.test_cases[k].input).val
    IN  IF p.t = "tuple" THEN [j \in 1..Len(p.v) |-> PyInt(p.v[j])] ELSE <<p>>

CaseCall(task, code, k) == Call(code, CaseArgs(task, k), {})

CaseVerdict(task, code, k) ==
    IF PyEval(task.test_cases[k].input).kind # "return" THEN "parse"
    ELSE LET r == CaseCall(task, code, k)
         IN  CASE r.kind = "Exception" -> "raise"
               [] r.kind = "BaseException" -> "exit"
               [] OTHER -> IF PyNe(r.val, task.test_cases[k].output)
                           THEN "mismatch" ELSE "pass"

\* The first test case that does not pass, 0 when all pass.
FirstBad(task, code) ==
    LET bad == {k \in 1..Len(task.test_cases) : CaseVerdict(task, code, k) # "pass"}
    IN  IF bad = {} THEN 0 ELSE CHOOSE k \in bad : \A j \in bad : k <= j

VerdictKinds == {"AllPassed", "FunctionMissing", "TestFailed", "ExecutionError"}

\* C1: solve never raises past its own boundary: every call returns
\* normally, whatever the submitted code does.
C1_NeverRaises == last.op = "solve" => last.raised = ""

\* C2: every solve call made with a selected task sends exactly one reply,
\* and it is one of the four Verdict variants.
C2_ExactlyOneVerdict ==
    Evaluated =>
        /\ Len(last.replies) = 1
        /\ last.replies[1].kind \in VerdictKinds

\* C3: test cases are parsed and invoked strictly in declared order, and no
\* case is parsed or invoked after one that failed or raised; a reported
\* failure is that of the first failing case.
C3_OrderAndShortCircuit ==
    Evaluated =>
        /\ Len(last.parsed) <= Len(LastCases)
        /\ \A k \in 1..Len(last.parsed) : last.parsed[k] = k
        /\ \A k \in 1..Len(last.invoked) : last.invoked[k].case = k
        /\ Len(last.invoked) \in {Len(last.parsed) - 1, Len(last.parsed)}
        /\ \A k \in 1..Len(last.parsed) :
               \A j \in 1..(k - 1) : CaseVerdict(LastTask, LastCode, j) = "pass"
        /\ (Len(last.replies) = 1 /\ last.replies[1].kind = "TestFailed") =>
               /\ last.replies[1].index = FirstBad(LastTask, LastCode)
               /\ Len(last.invoked) = last.replies[1].index

\* Cases [A(pass), B(fail), C(fail)]: invoked on A then B, B's failure reported.
C3_Witness ==
    /\ Evaluated
    /\ LastTask = TaskOrder
    /\ last.text = CodeAdd.src
    /\ CaseVerdict(TaskOrder, CodeAdd, 1) = "pass"
    /\ CaseVerdict(TaskOrder, CodeAdd, 2) = "mismatch"
    /\ CaseVerdict(TaskOrder, CodeAdd, 3) = "mismatch"
    /\ Len(last.invoked) = 2
    /\ last.replies = <<TestFailed(2, "(3, 5)", PyInt(9), PyInt(8))>>

\* C4: when the first case that does not pass is a mismatch, the verdict is
\* TestFailed with its 1-based position, its raw input text, its declared
\* output and the value the callable returned for it.
C4_TestFailedReport ==
    (Evaluated /\ Defines(LastCode, LastTask)) =>
        LET k == FirstBad(LastTask, LastCode)
        IN  (k > 0 /\ CaseVerdict(LastTask, LastCode, k) = "mismatch") =>
                last.replies = <<TestFailed(k, LastCases[k].input, LastCases[k].output,
                                            CaseCall(LastTask, LastCode, k).val)>>

\* a - b against {input "(1, 2)", output 3} gives TestFailed(1, "(1, 2)", 3, -1).
C4_Witness ==
    /\ Evaluated
    /\ LastTask = TaskAdd
    /\ last.text = CodeSub.src
    /\ last.replies = <<TestFailed(1, "(1, 2)", PyInt(3), PyInt(-1))>>

\* C5 as stated: whenever the submitted code does not define function_name
\* (it fails to load, or loads without binding the name), the verdict
\* returned is FunctionMissing(function_name) and nothing was parsed or
\* invoked.
C5_Original ==
    (Evaluated /\ last.raised = "" /\ ~Defines(LastCode, LastTask)) =>
        /\ last.replies = <<FunctionMissing(LastTask.function_name)>>
        /\ last.parsed = <<>>
        /\ last.invoked = <<>>

\* C5, amended: if the submitted code loads without raising and does not
\* bind function_name, the verdict is FunctionMissing(function_name)
\* whatever the test cases are, and nothing is parsed or invoked.
C5_FunctionMissing ==
    (Evaluated /\ Loads(LastCode) /\ LastTask.function_name \notin LastCode.binds) =>
        /\ last.replies = <<FunctionMissing(LastTask.function_name)>>
        /\ last.raised = ""
        /\ last.parsed = <<>>
        /\ last.invoked = <<>>

C5_Witness ==
    /\ Evaluated
    /\ LastTask = TaskOrder
    /\ Len(LastCases) = 3
    /\ last.text = CodeAddition.src
    /\ last.replies = <<FunctionMissing("add")>>
    /\ last.invoked = <<>>

\* C6: for a task with an empty test_cases list, any code that defines
\* function_name gets AllPassed, and the callable is never invoked.
C6_EmptyAllPassed ==
    (Evaluated /\ LastCases = <<>> /\ Defines(LastCode, LastTask)) =>
        /\ last.replies = <<AllPassed>>
        /\ last.raised = ""
        /\ last.parsed = <<>>
        /\ last.invoked = <<>>

\* A function that would leave the process if called passes the empty list.
C6_Witness ==
    /\ Evaluated
    /\ LastTask = TaskEmpty
    /\ last.text = CodeExitCall.src
    /\ last.replies = <<AllPassed>>
    /\ last.invoked = <<>>

\* Test case k is parsed and invoked without exception and returns a value
\* structurally equal to the expected output: same type, same contents.
StructurallyEqual(a, b) == a.t = b.t /\ a.v = b.v

CasePassesStructurally(task, code, k) ==
    /\ PyEval(task.test_cases[k].input).kind = "return"
    /\ CaseCall(task, code, k).kind = "return"
    /\ StructurallyEqual(CaseCall(task, code, k).val, task.test_cases[k].output)

\* C7: AllPassed is reported if and only if the code loaded, function_name
\* is bound, and every test case was parsed and invoked without exception
\* and returned a value structurally equal to its expected output.
C7_AllPassedIff ==
    Evaluated =>
        (last.replies = <<AllPassed>>
           <=> /\ Defines(LastCode, LastTask)
               /\ \A k \in 1..Len(LastCases) :
                      CasePassesStructurally(LastTask, LastCode, k))

\* C8: the call convention follows the shape of the parsed input alone: a
\* tuple of n elements is passed as n positional arguments, any other value
\* as the sole argument; a call whose argument count differs from the
\* callable's arity ends the run with ExecutionError, not TestFailed.
C8_CallConvention ==
    Evaluated =>
        \A k \in 1..Len(last.invoked) :
            LET p == PyEval(LastCases[k].input).val
                args == last.invoked[k].args
            IN  /\ p.t = "tuple" =>
                       /\ Len(args) = Len(p.v)
                       /\ \A j \in 1..Len(args) : args[j] = PyInt(p.v[j])
                /\ p.t # "tuple" => args = <<p>>
                /\ Len(args) # LastCode.arity =>
                       /\ k = Len(last.invoked)
                       /\ last.replies = <<ExecutionError("TypeError")>>

\* A list and an int are passed whole, the empty tuple as no argument at
\* all, which the one-parameter function rejects.
C8_Witness ==
    /\ Evaluated
    /\ LastTask = TaskMixed
    /\ last.text = CodeUnary.src
    /\ Len(last.invoked) = 3
    /\ last.invoked[1].args = <<PyList(<<1, 2>>)>>
    /\ last.invoked[2].args = <<PyInt(5)>>
    /\ last.invoked[3].args = <<>>
    /\ last.replies = <<ExecutionError("TypeError")>>

(***************************************************************************)
(* C9 (as stated): in every interleaving of the users' get_task and solve  *)
(* calls, a session's current_task changes only in a get_task of its own   *)
(* user that sent that task, solve answers with the verdict of the         *)
(* sender's code on the sender's current task and changes no session, and  *)
(* no handler changes the task catalog.                                    *)
(* Violated: the comparison of line 157 hands the catalog's expected       *)
(* output to the __ne__ of the returned object, which appends to it.       *)
(***************************************************************************)
C9Step ==
    /\ tasks' = tasks
    /\ \A u \in Users :
           user_data'[u] # user_data[u] =>
               /\ last'.op = "get_task"
               /\ last'.user = u
               /\ Deref(user_data', tasks', u) = last'.task
               /\ last'.replies = <<TaskSent(last'.task[1], last'.task[1].level)>>
    /\ last'.op = "solve" =>
           /\ last'.task = CurrentTask(last'.user)
           /\ user_data' = user_data
           /\ last'.replies = SolveOutcome(CurrentTask(last'.user), last'.text).replies
           /\ last'.raised = SolveOutcome(CurrentTask(last'.user), last'.text).raised

C9_Isolation == [][C9Step]_vars

EvaluatedNext ==
    /\ last'.op = "solve"
    /\ last'.task # <<>>
    /\ last'.task[1].function_name # ""

(***************************************************************************)
(* C11 (as stated): every evaluation starts from an empty namespace: after *)
(* exec the namespace holds exactly the names the submission itself binds, *)
(* whatever earlier submissions bound; a submission that loads and does    *)
(* not itself bind function_name gets FunctionMissing even when an earlier *)
(* one bound it; the module's globals (the task catalog) are the same      *)
(* after the evaluation as before.                                         *)
(* Violated: the namespace is fresh, but the comparison of line 157 hands  *)
(* the catalog's expected output to the __ne__ of the returned object,     *)
(* which appends to it.                                                    *)
(***************************************************************************)
C11FreshStep ==
    EvaluatedNext =>
        LET code == Program(last'.text)
            task == last'.task[1]
        IN  /\ local_vars' = code.binds
            /\ tasks' = tasks /\ unique_tasks' = unique_tasks /\ tasks_json' = tasks_json
            /\ (Loads(code) /\ task.function_name \notin code.binds) =>
                   /\ last'.replies = <<FunctionMissing(task.function_name)>>
                   /\ last'.raised = ""

C11_FreshNamespace == [][C11FreshStep]_vars

(***************************************************************************)
(* C12 (as stated): whenever loading the submitted code raises, the reply  *)
(* is ExecutionError with the description of the error, and no test case   *)
(* is parsed or invoked (so no FunctionMissing and no TestFailed).         *)
(* Violated: "raise SystemExit" raises while loading, SystemExit is not an *)
(* Exception, so it leaves solve and no reply is sent (see C1).            *)
(***************************************************************************)
C12_LoadError ==
    (Evaluated /\ ~Loads(LastCode)) =>
        /\ last.replies = <<ExecutionError(LastCode.err)>>
        /\ last.raised = ""
        /\ last.parsed = <<>>
        /\ last.invoked = <<>>

(***************************************************************************)
(* C13: a submission sent while the sender's session has no current task   *)
(* is answered with the select-a-task-first message; the code is not       *)
(* executed (nothing is raised, parsed or invoked and no namespace is      *)
(* built), there is no verdict, and sessions and catalog are unchanged.    *)
(***************************************************************************)
C13Step ==
    (last'.op = "solve" /\ user_data[last'.user] = <<>>) =>
        /\ last'.replies = <<SelectTaskFirst>>
        /\ last'.raised = ""
        /\ last'.parsed = <<>>
        /\ last'.invoked = <<>>
        /\ local_vars' = local_vars
        /\ user_data' = user_data
        /\ tasks' = tasks

C13_NoTaskSelected == [][C13Step]_vars

\* A user without a task has sent "raise SystemExit": nothing was raised.
C13_Witness ==
    /\ last.op = "solve"
    /\ last.text = CodeExitLoad.src
    /\ last.task = <<>>
    /\ user_data[last.user] = <<>>
    /\ last.replies = <<SelectTaskFirst>>
    /\ last.raised = ""
    /\ \E v \in Users : user_data[v] # <<>>

(***************************************************************************)
(* Catalog claims.                                                         *)
(***************************************************************************)
NoDuplicates(ts) ==
    \A i, j \in 1..Len(ts) : TaskTuple(ts[i]) = TaskTuple(ts[j]) => i = j

\* The level a command text stands for, "" if none.
CommandLevel(text) ==
    CASE text = "/easy" -> "legkiy"
      [] text = "/medium" -> "sredniy"
      [] text = "/hard" -> "slozhnyy"
      [] OTHER -> ""

HasLevel(ts, level) == \E k \in 1..Len(ts) : ts[k].level = level

TaskSentReply(rec) == rec.replies # <<>> /\ rec.replies[1].kind = "TaskSent"

(***************************************************************************)
(* C14 (as stated): when get_task selects a task, the list it selects from *)
(* and the list written back to tasks.json hold no two tasks with the same *)
(* (level, task, function_name).                                           *)
(* Violated: get_task filters tasks, the list as loaded, not unique_tasks. *)
(***************************************************************************)
C14_NoDuplicates ==
    (last.op = "get_task" /\ TaskSentReply(last)) =>
        /\ NoDuplicates(tasks)
        /\ NoDuplicates(tasks_json)

(***************************************************************************)
(* C15: a get_task for /easy, /medium or /hard whose level has a task in   *)
(* the catalog makes a catalog task of that level the session's            *)
(* current_task, and the one reply names that task's description, its      *)
(* function_name and the level.                                            *)
(***************************************************************************)
C15Step ==
    (/\ last'.op = "get_task"
     /\ CommandLevel(last'.text) # ""
     /\ HasLevel(tasks, CommandLevel(last'.text))) =>
        LET cur == Deref(user_data', tasks', last'.user)
            level == CommandLevel(last'.text)
        IN  /\ cur # <<>>
            /\ \E k \in 1..Len(tasks) : tasks[k] = cur[1]
            /\ cur[1].level = level
            /\ last'.replies =
                   <<Msg("TaskSent", cur[1].function_name, 0, cur[1].task,
                         NoVal, NoVal, level)>>

C15_SelectedTask == [][C15Step]_vars

\* /medium has replaced an easy task by a medium one.
C15_Witness ==
    /\ last.op = "get_task"
    /\ last.text = "/medium"
    /\ tasks = <<TaskAdd, TaskEmpty, TaskBase>>
    /\ CurrentTask(last.user) = <<TaskEmpty>>
    /\ last.replies = <<TaskSent(TaskEmpty, "sredniy")>>
    /\ \E v \in Users : CurrentTask(v) = <<TaskBase>>

(***************************************************************************)
(* C16: a get_task whose command maps to no level replies with the         *)
(* invalid-command message, one whose level has no task in the catalog     *)
(* replies with the no-tasks message for that level; in both cases every   *)
(* session's current_task is what it was.                                  *)
(***************************************************************************)
C16Step ==
    (last'.op = "get_task") =>
        LET level == CommandLevel(last'.text)
        IN  /\ level = "" =>
                  /\ last'.replies = <<InvalidCommand>>
                  /\ user_data' = user_data
            /\ (level # "" /\ ~HasLevel(tasks, level)) =>
                  /\ last'.replies = <<NoTasks(level)>>
                  /\ user_data' = user_data

C16_FailedGetTask == [][C16Step]_vars

\* /hard was refused and the sender still has the task chosen before.
C16_Witness ==
    /\ last.op = "get_task"
    /\ last.text = "/hard"
    /\ last.replies = <<NoTasks("slozhnyy")>>
    /\ CurrentTask(last.user) = <<TaskAdd>>

(***************************************************************************)
(* C17: unique_tasks is the loaded list restricted to the first occurrence *)
(* of each (level, task, function_name), in the original order; every      *)
(* triple of the loaded list occurs exactly once in it, every element      *)
(* comes from the loaded list, the pass applied to its own output returns  *)
(* it unchanged, and it is what is written to tasks.json.                  *)
(***************************************************************************)
FirstOccurrences(ts) ==
    {i \in 1..Len(ts) : \A j \in 1..(i - 1) : TaskTuple(ts[j]) # TaskTuple(ts[i])}

C17_KeepsFirst ==
    LET F == FirstOccurrences(tasks)
        nth(k) == CHOOSE i \in F : Cardinality({j \in F : j <= i}) = k
    IN  /\ Len(unique_tasks) = Cardinality(F)
        /\ \A k \in 1..Len(unique_tasks) : unique_tasks[k] = tasks[nth(k)]
        /\ \A i \in 1..Len(tasks) :
               Cardinality({k \in 1..Len(unique_tasks) :
                               TaskTuple(unique_tasks[k]) = TaskTuple(tasks[i])}) = 1
        /\ \A k \in 1..Len(unique_tasks) :
               \E i \in 1..Len(tasks) : unique_tasks[k] = tasks[i]
        /\ Dedup(unique_tasks) = unique_tasks
        /\ tasks_json = unique_tasks

\* The third task repeats the triple of the first with other test cases.
C17_Witness ==
    /\ tasks = <<TaskAdd, TaskEmpty, TaskOrder>>
    /\ unique_tasks = <<TaskAdd, TaskEmpty>>
    /\ tasks_json = <<TaskAdd, TaskEmpty>>
    /\ last.op = "get_task"

(***************************************************************************)
(* C18: a call of solve leaves every session's current_task as it was,     *)
(* whatever it replies or raises, and judges the submission against the    *)
(* task that is still the sender's current_task afterwards; a current_task *)
(* changes only in a get_task that sent a task.                            *)
(***************************************************************************)
C18Step ==
    /\ (last'.op = "solve") =>
           /\ \A u \in Users : user_data'[u] = user_data[u]
           /\ last'.task = Deref(user_data', tasks', last'.user)
    /\ (user_data' # user_data) => (last'.op = "get_task" /\ TaskSentReply(last'))

C18_SolveKeepsTask == [][C18Step]_vars

\* All tests passed and the solved task is still the current one.
C18_Witness ==
    /\ last.op = "solve"
    /\ last.text = CodeAdd.src
    /\ last.replies = <<AllPassed>>
    /\ last.task = <<TaskAdd>>
    /\ CurrentTask(last.user) = <<TaskAdd>>

(***************************************************************************)
(* C19: the names a submission binds are in local_vars only; a function    *)
(* whose body refers to itself or to another top-level function of the     *)
(* submission finds neither name when called, so an evaluation in which a  *)
(* call reaches that reference replies ExecutionError with the NameError,  *)
(* never AllPassed or TestFailed.                                          *)
(***************************************************************************)
\* Call k of the last evaluation executed the reference to a top-level name.
ReachesReference(k) ==
    LET args == last.invoked[k].args
    IN  /\ Len(args) = LastCode.arity
        /\ \/ LastCode.body = "helper"
           \/ LastCode.body = "rec" /\ args[2] # PyInt(0)

C19_EmptyGlobals ==
    (/\ Evaluated
     /\ LastCode.body \in {"rec", "helper"}
     /\ \E k \in 1..Len(last.invoked) : ReachesReference(k)) =>
        /\ local_vars = LastCode.binds
        /\ last.replies = <<ExecutionError("NameError")>>
        /\ last.raised = ""

\* The recursive add passes the case with b = 0 and fails in the next one.
C19_Witness ==
    /\ Evaluated
    /\ last.task = <<TaskBase>>
    /\ last.text = CodeRecursive.src
    /\ Len(last.invoked) = 2
    /\ local_vars = {"add"}
    /\ last.replies = <<ExecutionError("NameError")>>

====
